---- MODULE Spec2Model ----
(***************************************************************************)
(* Build tooling of HomeKitKnock-S3 (tools/*.py) as state machines.        *)
(*                                                                         *)
(*   build_ota.py            OtaMain, OtaFirmware, OtaFs                   *)
(*   embed_web_assets.py     EmbedMain, EmbedFileMissing, EmbedFileOk,     *)
(*                           EmbedFileError, EmbedMaster, EmbedRerun, Tick *)
(*   embed_web_assets_pre.py HookCallback, HookTimeout, HookResult         *)
(*   pio_fs_partition.py     PatchInvoke                                   *)
(*   convert_wav_to_pcm.py   WavRead, WavWrite                             *)
(*   pio_version.py          VersionReadBase, VersionReadHash, VersionStamp*)
(*                                                                         *)
(* Every script is single-threaded and runs to completion; the scripts     *)
(* share nothing but the file system.  Each script has its own variables   *)
(* and its own specification (SpecOta, SpecEmbed, ...); Spec is their      *)
(* union: one script is started and run.  A script that is not running     *)
(* stays at pc "idle".                                                     *)
(***************************************************************************)
EXTENDS Integers, Sequences, FiniteSets, TLC

VARIABLES
    \* ---- build_ota.py
    otaPc,        \* "idle" | "start" | "firmware" | "fs" | "done" | "failed"
    otaArgs,      \* argparse.Namespace: version, env, prefix, skip_firmware, skip_fs
    ini,          \* platformio.ini: whether it exists, and section -> NoSection | NoKey | value
    otaVersion,   \* the resolved version string (None before main resolves it)
    otaCmds,      \* the commands run_cmd has been called with, in order
    otaBuildDir,  \* files of .pio/build/<env>
    otaDist,      \* files of dist/ota
    otaToolRc,    \* exit status of the last command run_cmd ran
    otaExit,      \* exit status of build_ota.py
    \* ---- embed_web_assets.py (a process: run from the shell or by the hook)
    embedPc,      \* "idle" | "start" | "loop" | "done" | "killed"
    embedArgv,    \* sys.argv
    dataDir,      \* the data directory: whether it exists, and its files
    outFs,        \* the output directory: file name -> file
    embedIdx,     \* position of the for loop in embed_files
    files_data,   \* the dict files_data, in insertion order
    embedWritten, \* the output files this run has written
    embedRaised,  \* the files whose processing raised in this run
    embedResult,  \* what embed_web_assets returned: "none" | "true" | "false"
    embedExit,    \* exit status of the process
    now,          \* the wall clock, in seconds
    runNo,        \* how many times the script has been started
    \* ---- embed_web_assets_pre.py
    hookPc,       \* "idle" | "start" | "subprocess" | "returned" | "exited"
    hookFrameworks, \* env.get("PIOFRAMEWORK", [])
    hookCmd,      \* the command line the hook built
    hookTimedOut, \* subprocess.run raised TimeoutExpired
    hookExit,     \* the status env.Exit was called with
    \* ---- pio_fs_partition.py
    patchPc,      \* "idle" | "ready"
    builderMain,  \* builder/main.py of the platform: whether it exists, its text
    patchInitial, \* the text of builder/main.py before the first invocation
    patchApplied, \* how many times patch_espressif32_builder has run
    patchWrites,  \* how many times it has written builder/main.py
    \* ---- convert_wav_to_pcm.py
    wavPc,        \* "idle" | "start" | "write" | "done"
    wavArgc,      \* len(sys.argv)
    wavIn,        \* the input file: a WAV (channels, sample width, rate, data chunk) or not
    pcmFile,      \* the file at the output path: whether it exists, its bytes
    pcmBefore,    \* the file at the output path when the script started
    pcmOpened,    \* the output path has been opened for writing
    wavFrames,    \* the local frames
    wavWarned,    \* the sample-rate warning was printed
    wavRc,        \* what main returned (the exit status)
    \* ---- pio_version.py
    verPc,        \* "idle" | "start" | "hash" | "stamp" | "done" | "failed"
    verCustom,    \* custom_fw_version of the project configuration
    verLib,       \* what GetProjectOption does for an option that is not set
    gitTag,       \* outcome of git describe --tags --abbrev=0
    gitHead,      \* outcome of git rev-parse --short HEAD
    version_base,
    git_hash,
    fw_version    \* the FW_VERSION define appended to CPPDEFINES

otaVars == <<otaPc, otaArgs, ini, otaVersion, otaCmds, otaBuildDir, otaDist,
             otaToolRc, otaExit>>

embedVars == <<embedPc, embedArgv, dataDir, outFs, embedIdx, files_data,
               embedWritten, embedRaised, embedResult, embedExit, now, runNo>>

hookVars == <<hookPc, hookFrameworks, hookCmd, hookTimedOut, hookExit>>

patchVars == <<patchPc, builderMain, patchInitial, patchApplied, patchWrites>>

wavVars == <<wavPc, wavArgc, wavIn, pcmFile, pcmBefore, pcmOpened, wavFrames,
             wavWarned, wavRc>>

verVars == <<verPc, verCustom, verLib, gitTag, gitHead, version_base, git_hash,
             fw_version>>

None == "None"
\* No exit status (yet): the process is still running, or no tool was run.
NoStatus == 0 - 1

(***************************************************************************)
(* build_ota.py                                                            *)
(***************************************************************************)
DEFAULT_ENV == "seeed_xiao_esp32s3"
DEFAULT_PREFIX == "XIAOS3Sense"

\* The environments a run may name with --env.
Envs == {DEFAULT_ENV, "esp32cam"}

NoSection == "NoSection"
NoKey == "NoKey"

\* Values of custom_fw_version as configparser hands them out (it strips the
\* value while parsing, so the .strip() of load_version changes nothing).
IniValues == {"1.4.2", ""}

EnvSection(env) == <<"env", env>>
DefaultSection == <<"DEFAULT">>
IniSections == {DefaultSection} \cup {EnvSection(e) : e \in Envs}

\* The platformio.ini files of the model: no file, or for each section whether
\* it is there and what it gives custom_fw_version.
NoFile == [exists |-> FALSE, opt |-> [s \in IniSections |-> NoSection]]
IniFiles == {NoFile} \cup
    {[exists |-> TRUE, opt |-> f] : f \in [IniSections -> {NoSection, NoKey} \cup IniValues]}

\* config[section][key] of configparser: KeyError when the section is not in
\* the file; a key the section lacks is looked up in [DEFAULT].
ConfigLookup(cfg, section) ==
    IF cfg.opt[section] = NoSection THEN [raised |-> TRUE, value |-> None]
    ELSE IF cfg.opt[section] \in IniValues
         THEN [raised |-> FALSE, value |-> cfg.opt[section]]
    ELSE IF cfg.opt[DefaultSection] \in IniValues
         THEN [raised |-> FALSE, value |-> cfg.opt[DefaultSection]]
    ELSE [raised |-> TRUE, value |-> None]

\* A plausible slip: a missing key falls back to a default version.
LoadVersionFallback(cfg, env) ==
    IF ~cfg.exists THEN [raised |-> TRUE, value |-> None]
    ELSE IF ConfigLookup(cfg, EnvSection(env)).raised
         THEN [raised |-> FALSE, value |-> "0.0.0"]
    ELSE ConfigLookup(cfg, EnvSection(env))

\* load_version: FileNotFoundError when config.read finds no file, KeyError
\* when the lookup fails.
load_version(cfg, env) ==
    IF ~cfg.exists THEN [raised |-> TRUE, value |-> None]
    ELSE ConfigLookup(cfg, EnvSection(env))

\* args.version or load_version(...): an empty --version is falsy.
Truthy(s) == s # None /\ s # ""

\* Exit statuses an external tool may end with.
ToolExits == {0, 1, 2}

PioRunFirmware(env) == <<"pio", "run", "-e", env>>
PioRunFs(env) == <<"pio", "run", "-t", "buildfs", "-e", env>>

ArtifactName(prefix, version, kind) == <<prefix, version, kind>>

\* main, up to build_and_export: the version is resolved; an exception of
\* load_version is not caught and ends the interpreter with status 1.
OtaMain ==
    /\ otaPc = "start"
    /\ IF Truthy(otaArgs.version)
       THEN /\ otaVersion' = otaArgs.version
            /\ otaPc' = "firmware"
            /\ otaExit' = otaExit
       ELSE LET r == load_version(ini, otaArgs.env) IN
            IF r.raised
            THEN /\ otaPc' = "failed"
                 /\ otaExit' = 1
                 /\ otaVersion' = otaVersion
            ELSE /\ otaVersion' = r.value
                 /\ otaPc' = "firmware"
                 /\ otaExit' = otaExit
    /\ UNCHANGED <<otaArgs, ini, otaCmds, otaBuildDir, otaDist, otaToolRc>>
    /\ UNCHANGED <<embedVars, hookVars, patchVars, wavVars, verVars>>

\* A plausible slip: run_cmd without check=True, so that a failed build goes
\* unnoticed and whatever artifact lies in the build directory is exported.
OtaBuildStepUnchecked(cmd, artifact, kind, nextPc) ==
    \E rc \in ToolExits :
        /\ otaCmds' = Append(otaCmds, cmd)
        /\ otaToolRc' = rc
        /\ otaBuildDir' = otaBuildDir \cup {artifact}
        /\ otaDist' = otaDist \cup {ArtifactName(otaArgs.prefix, otaVersion, kind)}
        /\ otaPc' = nextPc
        /\ otaExit' = IF nextPc = "done" THEN 0 ELSE otaExit

\* run_cmd then copy_artifact for one artifact.  subprocess.run(check=True)
\* raises CalledProcessError on a non-zero status; nothing catches it, so the
\* interpreter ends with status 1.  A build that succeeded left the artifact in
\* the build directory, from where copy2 copies it.
OtaBuildStep(cmd, artifact, kind, nextPc) ==
    \E rc \in ToolExits :
        /\ otaCmds' = Append(otaCmds, cmd)
        /\ otaToolRc' = rc
        /\ IF rc # 0
           THEN /\ otaPc' = "failed"
                /\ otaExit' = 1
                /\ UNCHANGED <<otaBuildDir, otaDist>>
           ELSE /\ otaBuildDir' = otaBuildDir \cup {artifact}
                /\ otaDist' = otaDist \cup
                       {ArtifactName(otaArgs.prefix, otaVersion, kind)}
                /\ otaPc' = nextPc
                /\ otaExit' = IF nextPc = "done" THEN 0 ELSE otaExit

\* build_and_export, the firmware half.
OtaFirmware ==
    /\ otaPc = "firmware"
    /\ IF otaArgs.skip_firmware
       THEN /\ otaPc' = "fs"
            /\ UNCHANGED <<otaCmds, otaBuildDir, otaDist, otaToolRc, otaExit>>
       ELSE OtaBuildStep(PioRunFirmware(otaArgs.env), "firmware.bin", "firmware", "fs")
    /\ UNCHANGED <<otaArgs, ini, otaVersion, embedVars, hookVars, patchVars,
                   wavVars, verVars>>

\* build_and_export, the filesystem half; main returns after it.
OtaFs ==
    /\ otaPc = "fs"
    /\ IF otaArgs.skip_fs
       THEN /\ otaPc' = "done"
            /\ otaExit' = 0
            /\ UNCHANGED <<otaCmds, otaBuildDir, otaDist, otaToolRc>>
       ELSE OtaBuildStep(PioRunFs(otaArgs.env), "littlefs.bin", "littlefs", "done")
    /\ UNCHANGED <<otaArgs, ini, otaVersion, embedVars, hookVars, patchVars,
                   wavVars, verVars>>

OtaNext == OtaMain \/ OtaFirmware \/ OtaFs

(***************************************************************************)
(* embed_web_assets.py                                                     *)
(*                                                                         *)
(* File names are sequences of tokens ("wifi", "-", "setup", ".", "html"), *)
(* so that stem, suffix and the replace calls are computed as pathlib and  *)
(* str compute them.  File contents are byte sequences.                    *)
(***************************************************************************)
embed_files ==
    << <<"index", ".", "html">>, <<"style", ".", "css">>,
       <<"setup", ".", "html">>, <<"wifi", "-", "setup", ".", "html">>,
       <<"live", ".", "html">>, <<"guide", ".", "html">>,
       <<"ota", ".", "html">>, <<"sip", ".", "html">>,
       <<"tr064", ".", "html">>, <<"logs", "-", "doorbell", ".", "html">>,
       <<"logs", "-", "camera", ".", "html">> >>

AllowList == {embed_files[i] : i \in 1..Len(embed_files)}

\* Contents an asset file may have.
Contents == {<<104, 105>>, <<>>}

\* At most this many allow-list files are in the data directory.
MaxPresent == 2
\* The script is started at most this many times on the same directories.
MaxRuns == 2
\* The clock advances at most this many seconds.
MaxClock == 1

\* Index of the last "." of a name that starts a suffix (0: none).  pathlib
\* takes no suffix from a leading dot.
LastDot(name) ==
    LET dots == {i \in 2..Len(name) : name[i] = "." /\ i < Len(name)}
    IN  IF dots = {} THEN 0 ELSE CHOOSE i \in dots : \A j \in dots : j <= i

\* Path(filename).stem and Path(filename).suffix
Stem(name) == IF LastDot(name) = 0 THEN name ELSE SubSeq(name, 1, LastDot(name) - 1)
Suffix(name) == IF LastDot(name) = 0 THEN <<>> ELSE SubSeq(name, LastDot(name), Len(name))

\* str.replace of one single-character token by another
ReplaceToken(str, old, new) == [i \in 1..Len(str) |-> IF str[i] = old THEN new ELSE str[i]]

\* str.replace(old, ""), old a two-token string such as ".html"
RECURSIVE RemovePair(_, _)
RemovePair(str, old) ==
    IF Len(str) < 2 THEN str
    ELSE IF SubSeq(str, 1, 2) = old THEN RemovePair(SubSeq(str, 3, Len(str)), old)
    ELSE <<str[1]>> \o RemovePair(Tail(str), old)

\* Path(filename).stem.replace('-', '_').replace('.', '_')
VarName(filename) == ReplaceToken(ReplaceToken(Stem(filename), "-", "_"), ".", "_")

\* get_mime_type (the suffixes of the table; the names here are lower case)
get_mime_type(filename) ==
    LET ext == Suffix(filename) IN
    CASE ext = <<".", "html">> -> "text/html; charset=utf-8"
      [] ext = <<".", "css">>  -> "text/css; charset=utf-8"
      [] ext = <<".", "js">>   -> "application/javascript; charset=utf-8"
      [] ext = <<".", "json">> -> "application/json"
      [] ext = <<".", "svg">>  -> "image/svg+xml"
      [] ext = <<".", "png">>  -> "image/png"
      [] ext = <<".", "jpg">>  -> "image/jpeg"
      [] ext = <<".", "ico">>  -> "image/x-icon"
      [] OTHER -> "application/octet-stream"

\* A 32-bit little-endian number, as struct.pack("<L", n) lays it out.
LE32(n) ==
    << n % 256, (n \div 256) % 256, (n \div 65536) % 256, (n \div 16777216) % 256 >>

\* The deflate stream of the member.  zlib's output is a function of the
\* content (and the fixed level) alone; it is laid out here as one stored
\* block: final-block byte, LEN, NLEN, the bytes.
Deflate(content) ==
    << 1, Len(content) % 256, Len(content) \div 256,
       255 - (Len(content) % 256), 255 - (Len(content) \div 256) >> \o content

\* compress_content: gzip.compress(content) with its default mtime=None, which
\* stamps the member's header (bytes 4..7) with the current time; then XFL, OS,
\* the deflate stream and the trailer's ISIZE (the CRC32 is left out).
compress_content(content, clock) ==
    << 31, 139, 8, 0 >> \o LE32(clock) \o << 2, 255 >> \o Deflate(content)
        \o LE32(Len(content))

\* to_hex_string: the bytes in rows of bytes_per_line
BytesPerLine == 16
to_hex_string(data) ==
    [r \in 1..((Len(data) + BytesPerLine - 1) \div BytesPerLine) |->
        SubSeq(data, (r - 1) * BytesPerLine + 1,
               IF r * BytesPerLine < Len(data) THEN r * BytesPerLine ELSE Len(data))]

\* generate_header: the text of an individual header, by its holes
generate_header(filename, compressed, original_size) ==
    [ filename      |-> filename,
      var_name      |-> VarName(filename),
      data          |-> to_hex_string(compressed),
      size          |-> Len(compressed),
      original_size |-> original_size,
      mime          |-> get_mime_type(filename) ]

\* output_path / f"embedded_{Path(filename).stem}.h"
HeaderFile(filename) == <<"embedded_">> \o Stem(filename) \o <<".", "h">>
MasterFile == <<"embedded_web_assets", ".", "h">>
OutNames == {HeaderFile(f) : f \in AllowList} \cup {MasterFile}

\* The entry files_data[filename]
FileEntry(filename, content, compressed) ==
    [ filename        |-> filename,
      var_name        |-> VarName(filename),
      original_size   |-> Len(content),
      compressed_size |-> Len(compressed),
      mime_type       |-> get_mime_type(filename) ]

\* generate_master_header: the includes, the registry rows and the count
generate_master_header(fd) ==
    [ includes |-> [i \in 1..Len(fd) |->
                      <<"embedded_">>
                        \o RemovePair(RemovePair(fd[i].filename, <<".", "html">>),
                                      <<".", "css">>)
                        \o <<".", "h">>],
      registry |-> [i \in 1..Len(fd) |->
                      [filename |-> fd[i].filename, var_name |-> fd[i].var_name]],
      count    |-> Len(fd) ]

\* Files of the output directory.
Absent == [kind |-> "absent", text |-> <<>>]
Partial == [kind |-> "partial", text |-> <<>>]
TextFile(t) == [kind |-> "text", text |-> <<t>>]

\* Files of the data directory.
MissingFile == [present |-> FALSE, content |-> <<>>]
AssetFile(c) == [present |-> TRUE, content |-> c]

NoDir == [exists |-> FALSE, files |-> [f \in AllowList |-> MissingFile]]
DirOf(present, content) ==
    [exists |-> TRUE,
     files  |-> [f \in AllowList |->
                   IF f \in present THEN AssetFile(content[f]) ELSE MissingFile]]
DataDirs ==
    {NoDir} \cup
    UNION {{DirOf(S, c) : c \in [S -> Contents]} :
             S \in {S \in SUBSET AllowList : Cardinality(S) <= MaxPresent}}

Present(dir) == {f \in AllowList : dir.files[f].present}

\* The command lines the script is given from the shell: the documented one,
\* one argument short, and with the flag the pre-build hook appends.
EmbedScript == "embed_web_assets.py"
ShellArgvs ==
    { <<EmbedScript, "data", "include">>,
      <<EmbedScript, "data">>,
      <<EmbedScript, "data", "include", "--idf">> }

EmptyOut == [n \in OutNames |-> Absent]

\* What a run starts from: the state of a fresh process.
EmbedFresh ==
    /\ embedIdx' = 0
    /\ files_data' = <<>>
    /\ embedWritten' = {}
    /\ embedRaised' = {}
    /\ embedResult' = "none"
    /\ embedExit' = NoStatus

\* __main__ up to the loop of embed_web_assets: the argument count is checked
\* (anything but <data_dir> <output_dir> is a usage error, status 1), then the
\* data directory (missing: return False, status 1), then the loop starts.
EmbedMain ==
    /\ embedPc = "start"
    /\ IF Len(embedArgv) # 3
       THEN /\ embedPc' = "done"
            /\ embedExit' = 1
            /\ embedResult' = embedResult
       ELSE IF ~dataDir.exists
       THEN /\ embedPc' = "done"
            /\ embedResult' = "false"
            /\ embedExit' = 1
       ELSE /\ embedPc' = "loop"
            /\ embedResult' = embedResult
            /\ embedExit' = embedExit
    /\ embedIdx' = 1
    /\ UNCHANGED <<embedArgv, dataDir, outFs, files_data, embedWritten,
                   embedRaised, now, runNo, hookVars, otaVars,
                   patchVars, wavVars, verVars>>

InLoop == embedPc = "loop" /\ embedIdx <= Len(embed_files)
CurrentFile == embed_files[embedIdx]

\* A plausible slip: a missing file ends the run with False.
EmbedFileMissingFatal ==
    /\ InLoop
    /\ ~dataDir.files[CurrentFile].present
    /\ embedPc' = "done"
    /\ embedResult' = "false"
    /\ embedExit' = 1
    /\ UNCHANGED <<embedArgv, dataDir, outFs, embedIdx, files_data, embedWritten,
                   embedRaised, now, runNo, hookVars, otaVars,
                   patchVars, wavVars, verVars>>

\* The loop body for a file that is not there: warning, continue.
EmbedFileMissing ==
    /\ InLoop
    /\ ~dataDir.files[CurrentFile].present
    /\ embedIdx' = embedIdx + 1
    /\ UNCHANGED <<embedPc, embedArgv, dataDir, outFs, files_data, embedWritten,
                   embedRaised, embedResult, embedExit, now, runNo, hookVars, otaVars,
                   patchVars, wavVars, verVars>>

\* The loop body for a file that is there and processed without an error: the
\* individual header is written and the file entered in files_data.
EmbedFileOk ==
    /\ InLoop
    /\ dataDir.files[CurrentFile].present
    /\ LET content == dataDir.files[CurrentFile].content
           compressed == compress_content(content, now)
           header == generate_header(CurrentFile, compressed, Len(content))
       IN  /\ outFs' = [outFs EXCEPT ![HeaderFile(CurrentFile)] = TextFile(header)]
           /\ files_data' = Append(files_data, FileEntry(CurrentFile, content, compressed))
    /\ embedWritten' = embedWritten \cup {HeaderFile(CurrentFile)}
    /\ embedIdx' = embedIdx + 1
    /\ UNCHANGED <<embedPc, embedArgv, dataDir, embedRaised, embedResult,
                   embedExit, now, runNo, hookVars, otaVars,
                   patchVars, wavVars, verVars>>

\* Where the try block of the loop body may raise: opening or reading the
\* asset, opening the header for writing, or writing it (the header is then
\* left truncated).
ErrorPoints == {"read", "open_header", "write_header"}

\* A plausible slip: the handler logs the error and goes on with the next file.
EmbedFileErrorContinue ==
    /\ InLoop
    /\ dataDir.files[CurrentFile].present
    /\ \E at \in ErrorPoints :
          outFs' = IF at = "write_header"
                   THEN [outFs EXCEPT ![HeaderFile(CurrentFile)] = Partial]
                   ELSE outFs
    /\ embedRaised' = embedRaised \cup {CurrentFile}
    /\ embedIdx' = embedIdx + 1
    /\ UNCHANGED <<embedPc, embedArgv, dataDir, files_data, embedWritten,
                   embedResult, embedExit, now, runNo, hookVars, otaVars,
                   patchVars, wavVars, verVars>>

\* The loop body for a file whose processing raises: except Exception prints
\* the error and returns False; __main__ exits with status 1.
EmbedFileError ==
    /\ InLoop
    /\ dataDir.files[CurrentFile].present
    /\ \E at \in ErrorPoints :
          outFs' = IF at = "write_header"
                   THEN [outFs EXCEPT ![HeaderFile(CurrentFile)] = Partial]
                   ELSE outFs
    /\ embedRaised' = embedRaised \cup {CurrentFile}
    /\ embedPc' = "done"
    /\ embedResult' = "false"
    /\ embedExit' = 1
    /\ UNCHANGED <<embedArgv, dataDir, embedIdx, files_data, embedWritten,
                   now, runNo, hookVars, otaVars,
                   patchVars, wavVars, verVars>>

\* After the loop: the master header is generated from files_data and written,
\* embed_web_assets returns True and __main__ exits with status 0.
EmbedMaster ==
    /\ embedPc = "loop"
    /\ embedIdx > Len(embed_files)
    /\ outFs' = [outFs EXCEPT ![MasterFile] = TextFile(generate_master_header(files_data))]
    /\ embedWritten' = embedWritten \cup {MasterFile}
    /\ embedPc' = "done"
    /\ embedResult' = "true"
    /\ embedExit' = 0
    /\ UNCHANGED <<embedArgv, dataDir, embedIdx, files_data, embedRaised,
                   now, runNo, hookVars, otaVars,
                   patchVars, wavVars, verVars>>

\* The script is started again from the shell, with the same arguments, on
\* the same directories.
EmbedRerun ==
    /\ embedPc = "done"
    /\ hookPc = "idle"
    /\ runNo < MaxRuns
    /\ embedPc' = "start"
    /\ runNo' = runNo + 1
    /\ EmbedFresh
    /\ UNCHANGED <<embedArgv, dataDir, outFs, now, hookVars, otaVars,
                   patchVars, wavVars, verVars>>

\* A second of wall-clock time passes.
Tick ==
    /\ embedPc \notin {"idle", "killed"}
    /\ now < MaxClock
    /\ now' = now + 1
    /\ UNCHANGED <<embedPc, embedArgv, dataDir, outFs, embedIdx, files_data,
                   embedWritten, embedRaised, embedResult, embedExit, runNo,
                   hookVars, otaVars,
                   patchVars, wavVars, verVars>>

\* One run of the script from the shell.
EmbedNext ==
    \/ EmbedMain
    \/ EmbedFileMissing
    \/ EmbedFileOk
    \/ EmbedFileError
    \/ EmbedMaster
    \/ Tick

(***************************************************************************)
(* embed_web_assets_pre.py: the pre-build callback.  It runs the embedding  *)
(* script as a child process (the embed actions above, started with the    *)
(* hook's command line) and waits for it, at most 30 seconds.              *)
(***************************************************************************)
Frameworks == {"espidf", "arduino"}

\* is_idf_only
IsIdfOnly(frameworks) == "espidf" \in frameworks /\ "arduino" \notin frameworks

Python == "python3"

\* cmd = [sys.executable, embed_script, data_dir, include_dir] (+ ["--idf"])
HookCommand(frameworks) ==
    <<Python, EmbedScript, "data", "include">>
        \o (IF IsIdfOnly(frameworks) THEN <<"--idf">> ELSE <<>>)

\* The first half of embed_web_assets_callback: the two existence checks, the
\* command line, and the start of the child (subprocess.run).  A child that
\* cannot be started raises OSError, caught by except Exception: env.Exit(1).
HookCallback ==
    /\ hookPc = "start"
    /\ \E scriptExists \in BOOLEAN, spawned \in BOOLEAN :
         IF ~scriptExists
         THEN /\ hookPc' = "exited"
              /\ hookExit' = 1
              /\ UNCHANGED <<hookCmd, embedPc, embedArgv, runNo>>
         ELSE IF ~dataDir.exists
         THEN /\ hookPc' = "returned"
              /\ UNCHANGED <<hookExit, hookCmd, embedPc, embedArgv, runNo>>
         ELSE /\ hookCmd' = HookCommand(hookFrameworks)
              /\ IF spawned
                 THEN /\ hookPc' = "subprocess"
                      /\ embedPc' = "start"
                      /\ embedArgv' = Tail(HookCommand(hookFrameworks))
                      /\ runNo' = 1
                      /\ hookExit' = hookExit
                 ELSE /\ hookPc' = "exited"
                      /\ hookExit' = 1
                      /\ UNCHANGED <<embedPc, embedArgv, runNo>>
    /\ UNCHANGED <<hookFrameworks, hookTimedOut, dataDir, outFs, embedIdx,
                   files_data, embedWritten, embedRaised, embedResult,
                   embedExit, now, otaVars, patchVars, wavVars, verVars>>

\* subprocess.run's timeout expires before the child has ended: the child is
\* killed, TimeoutExpired is raised and its handler calls env.Exit(1).
HookTimeout ==
    /\ hookPc = "subprocess"
    /\ embedPc \in {"start", "loop"}
    /\ embedPc' = "killed"
    /\ hookTimedOut' = TRUE
    /\ hookPc' = "exited"
    /\ hookExit' = 1
    /\ UNCHANGED <<hookFrameworks, hookCmd, embedArgv, dataDir, outFs, embedIdx,
                   files_data, embedWritten, embedRaised, embedResult,
                   embedExit, now, runNo, otaVars, patchVars,
                   wavVars, verVars>>

\* The child has ended: a non-zero return code is reported and env.Exit(1)
\* called; otherwise the callback returns and the build goes on.
HookResult ==
    /\ hookPc = "subprocess"
    /\ embedPc = "done"
    /\ IF embedExit # 0
       THEN /\ hookPc' = "exited"
            /\ hookExit' = 1
       ELSE /\ hookPc' = "returned"
            /\ hookExit' = hookExit
    /\ UNCHANGED <<hookFrameworks, hookCmd, hookTimedOut, embedVars, otaVars,
                   patchVars, wavVars, verVars>>

HookNext ==
    \/ HookCallback
    \/ HookTimeout
    \/ HookResult
    \/ EmbedMain
    \/ EmbedFileMissing
    \/ EmbedFileOk
    \/ EmbedFileError
    \/ EmbedMaster
    \/ Tick

(***************************************************************************)
(* pio_fs_partition.py                                                     *)
(*                                                                         *)
(* The text of builder/main.py is a sequence of tokens: the needle is the  *)
(* two tokens PRE CLOSE, its replacement PRE EXT CLOSE, and REST is any     *)
(* other text.  The search and the replacement are computed on the tokens  *)
(* as str.__contains__ and str.replace(old, new, 1) compute them.          *)
(***************************************************************************)
PRE == "p[\"subtype\"] in (\"spiffs\", \"fat\", \"littlefs\""
CLOSE == ")"
EXT == ", \"0x83\""
REST == "..."
Tokens == {PRE, CLOSE, EXT, REST}

\* The text of builder/main.py has at most this many tokens.
MaxTextLen == 4
\* The script is loaded at most this many times with a filesystem target.
MaxPatchRuns == 3

Texts == UNION {[1..n -> Tokens] : n \in 0..MaxTextLen}

FS_TARGETS == {"buildfs", "uploadfs", "uploadfsota"}
CommandLineTargets == SUBSET {"buildfs", "uploadfs", "upload"}

needle == <<PRE, CLOSE>>

\* A plausible slip: a replacement that the needle still matches.
PatchedTextKeepsNeedle == <<PRE, CLOSE, EXT>>

\* 'p["subtype"] in ("spiffs", "fat", "littlefs", "0x83")'
PatchedText == <<PRE, EXT, CLOSE>>

\* str.find: the first position where old occurs in text (0: nowhere)
Find(text, old) ==
    LET hits == {i \in 1..(Len(text) - Len(old) + 1) :
                    SubSeq(text, i, i + Len(old) - 1) = old}
    IN  IF hits = {} THEN 0 ELSE CHOOSE i \in hits : \A j \in hits : i <= j

\* old in text
Contains(text, old) == Find(text, old) # 0

\* text.replace(old, new, 1)
ReplaceFirst(text, old, new) ==
    IF ~Contains(text, old) THEN text
    ELSE SubSeq(text, 1, Find(text, old) - 1) \o new
           \o SubSeq(text, Find(text, old) + Len(old), Len(text))

\* text.count(old): the occurrences of old, which cannot overlap here
RECURSIVE CountOf(_, _)
CountOf(text, old) ==
    IF ~Contains(text, old) THEN 0
    ELSE 1 + CountOf(SubSeq(text, Find(text, old) + Len(old), Len(text)), old)

\* patch_espressif32_builder: what it leaves in builder/main.py, and whether
\* it wrote the file.
PatchOutcome(file) ==
    IF ~file.exists THEN [file |-> file, wrote |-> FALSE]
    ELSE IF ~Contains(file.text, needle) THEN [file |-> file, wrote |-> FALSE]
    ELSE LET patched == ReplaceFirst(file.text, needle, PatchedText) IN
         IF patched = file.text THEN [file |-> file, wrote |-> FALSE]
         ELSE [file |-> [exists |-> TRUE, text |-> patched], wrote |-> TRUE]

\* The script is loaded for a build: with a filesystem target on the command
\* line the patch function runs, otherwise nothing happens.
PatchInvoke ==
    /\ patchPc = "ready"
    /\ patchApplied < MaxPatchRuns
    /\ \E targets \in CommandLineTargets :
         IF FS_TARGETS \cap targets # {}
         THEN /\ builderMain' = PatchOutcome(builderMain).file
              /\ patchWrites' = patchWrites + (IF PatchOutcome(builderMain).wrote THEN 1 ELSE 0)
              /\ patchApplied' = patchApplied + 1
         ELSE UNCHANGED <<builderMain, patchWrites, patchApplied>>
    /\ UNCHANGED <<patchPc, patchInitial, otaVars, embedVars, hookVars, wavVars, verVars>>

PatchNext == PatchInvoke

(***************************************************************************)
(* convert_wav_to_pcm.py                                                   *)
(***************************************************************************)
\* Byte values of the data chunk.
Bytes == {0, 255}
\* The data chunk has at most this many bytes.
MaxDataLen == 4
ExpectedRate == 16000

DataChunks == UNION {[1..n -> Bytes] : n \in 0..MaxDataLen}

NotWav == [valid |-> FALSE, channels |-> 0, sampwidth |-> 0, rate |-> 0, data |-> <<>>]
WavFiles ==
    {NotWav} \cup
    [valid : {TRUE}, channels : {1, 2}, sampwidth : {1, 2, 3},
     rate : {ExpectedRate, 44100}, data : DataChunks]

NoPcm == [exists |-> FALSE, bytes |-> <<>>]
PcmFiles == {NoPcm, [exists |-> TRUE, bytes |-> <<7, 7, 7, 7, 7>>]}

\* wave: getnframes() is the data chunk's size // frame size, and
\* readframes(n) the first n * frame size bytes of the chunk (the host is
\* little-endian, as every host of the ESP32 toolchain: no byte swap).
FrameSize(wav) == wav.channels * wav.sampwidth
getnframes(wav) == Len(wav.data) \div FrameSize(wav)
readframes(wav, n) ==
    SubSeq(wav.data, 1,
           IF n * FrameSize(wav) < Len(wav.data) THEN n * FrameSize(wav) ELSE Len(wav.data))

\* A plausible slip: "and" for "or" in the format check.
RejectedBoth(wav) == wav.channels # 1 /\ wav.sampwidth # 2

\* if channels != 1 or sample_width != 2
Rejected(wav) == wav.channels # 1 \/ wav.sampwidth # 2

\* A plausible slip: a sample rate other than 16 kHz is an error, not a warning.
RateFatalStrict(wav) == wav.rate # ExpectedRate

\* Whether the sample rate makes main give up: it never does.
RateFatal(wav) == FALSE

\* main, through the with wave.open(...) block: the argument count, the
\* open (wave.Error for a file that is no PCM WAV: uncaught, status 1), the
\* format check (return 1), the sample-rate warning and readframes.
WavRead ==
    /\ wavPc = "start"
    /\ IF wavArgc # 3 \/ ~wavIn.valid
       THEN /\ wavPc' = "done"
            /\ wavRc' = 1
            /\ UNCHANGED <<wavFrames, wavWarned>>
       ELSE IF Rejected(wavIn) \/ RateFatal(wavIn)
       THEN /\ wavPc' = "done"
            /\ wavRc' = 1
            /\ UNCHANGED <<wavFrames, wavWarned>>
       ELSE /\ wavWarned' = (wavIn.rate # ExpectedRate)
            /\ wavFrames' = readframes(wavIn, getnframes(wavIn))
            /\ wavPc' = "write"
            /\ wavRc' = wavRc
    /\ UNCHANGED <<wavArgc, wavIn, pcmFile, pcmBefore, pcmOpened,
                   otaVars, embedVars, hookVars, patchVars, verVars>>

\* main, from open(pcm_path, "wb") on: the frames are written, return 0.
WavWrite ==
    /\ wavPc = "write"
    /\ pcmOpened' = TRUE
    /\ pcmFile' = [exists |-> TRUE, bytes |-> wavFrames]
    /\ wavRc' = 0
    /\ wavPc' = "done"
    /\ UNCHANGED <<wavArgc, wavIn, pcmBefore, wavFrames, wavWarned,
                   otaVars, embedVars, hookVars, patchVars, verVars>>

WavNext == WavRead \/ WavWrite

(***************************************************************************)
(* pio_version.py.  Strings are sequences of characters, so that lstrip     *)
(* and strip are computed.                                                 *)
(***************************************************************************)
NoOutput == [ok |-> FALSE, out |-> <<>>]
Output(str) == [ok |-> TRUE, out |-> str]

Unset == [set |-> FALSE, value |-> <<>>]
Configured(str) == [set |-> TRUE, value |-> str]

CustomVersions ==
    { Unset, Configured(<<>>), Configured(<<"1", ".", "4">>),
      Configured(<<"v", "1", ".", "4">>), Configured(<<"v", "v", "2">>),
      Configured(<<"v">>), Configured(<<"v", " ", "3">>) }

\* What git describe --tags --abbrev=0 gives, after run_git's strip()
GitTags == { NoOutput, Output(<<"v", "1", ".", "0">>), Output(<<"1", ".", "0">>),
             Output(<<"r", "1">>) }
\* What git rev-parse --short HEAD gives
GitHeads == { NoOutput, Output(<<"a", "1", "b", "2", "c", "3", "d">>) }

\* env.GetProjectOption(option) is called without a default.  For a custom_
\* option that is not set, PlatformIO's ProjectConfig.get raises
\* InvalidProjectConfError (the parser's NoOptionError) since the default
\* became a MISSING marker; its first 4.x releases returned None.
LibBehaviours == {"raises", "returns_none"}

RECURSIVE LStrip(_, _)
\* str.lstrip(c): every leading c goes
LStrip(str, c) ==
    IF str # <<>> /\ str[1] = c THEN LStrip(Tail(str), c) ELSE str

RECURSIVE RStrip(_, _)
RStrip(str, c) ==
    IF str # <<>> /\ str[Len(str)] = c THEN RStrip(SubSeq(str, 1, Len(str) - 1), c) ELSE str

\* str.strip(), for the one white-space character of the model
Strip(str) == RStrip(LStrip(str, " "), " ")

Fallback_base == <<"0", ".", "0", ".", "0">>
Fallback_hash == <<"n", "o", "g", "i", "t">>

\* read_version_base: the configured version when it is truthy, else the
\* latest tag, else "0.0.0".  GetProjectOption is outside every try block.
VersionReadBase ==
    /\ verPc = "start"
    /\ IF ~verCustom.set /\ verLib = "raises"
       THEN /\ verPc' = "failed"
            /\ version_base' = version_base
       ELSE /\ verPc' = "hash"
            /\ version_base' =
                 IF verCustom.set /\ verCustom.value # <<>>
                 THEN Strip(LStrip(verCustom.value, "v"))
                 ELSE IF gitTag.ok THEN LStrip(gitTag.out, "v")
                 ELSE Fallback_base
    /\ UNCHANGED <<verCustom, verLib, gitTag, gitHead, git_hash, fw_version,
                   otaVars, embedVars, hookVars, patchVars, wavVars>>

\* read_git_hash
VersionReadHash ==
    /\ verPc = "hash"
    /\ git_hash' = IF gitHead.ok THEN gitHead.out ELSE Fallback_hash
    /\ verPc' = "stamp"
    /\ UNCHANGED <<verCustom, verLib, gitTag, gitHead, version_base, fw_version,
                   otaVars, embedVars, hookVars, patchVars, wavVars>>

\* fw_version = f"{version_base}+{git_hash}", appended to CPPDEFINES
VersionStamp ==
    /\ verPc = "stamp"
    /\ fw_version' = version_base \o <<"+">> \o git_hash
    /\ verPc' = "done"
    /\ UNCHANGED <<verCustom, verLib, gitTag, gitHead, version_base, git_hash,
                   otaVars, embedVars, hookVars, patchVars, wavVars>>

VersionNext == VersionReadBase \/ VersionReadHash \/ VersionStamp

(***************************************************************************)
(* The whole: one of the scripts is started, on inputs of its own; the     *)
(* others stay idle.                                                       *)
(***************************************************************************)
vars == <<otaVars, embedVars, hookVars, patchVars, wavVars, verVars>>

Scripts == {"build_ota", "embed_web_assets", "embed_web_assets_pre",
            "pio_fs_partition", "convert_wav_to_pcm", "pio_version"}

NoArgs == [version |-> None, env |-> DEFAULT_ENV, prefix |-> DEFAULT_PREFIX,
           skip_firmware |-> FALSE, skip_fs |-> FALSE]
NoBuilder == [exists |-> FALSE, text |-> <<>>]

InitOf(script) ==
    \* build_ota.py
    /\ otaPc = IF script = "build_ota" THEN "start" ELSE "idle"
    /\ otaArgs \in IF script = "build_ota"
                   THEN [version : {None, "", "2.0.0"}, env : Envs,
                         prefix : {DEFAULT_PREFIX},
                         skip_firmware : BOOLEAN, skip_fs : BOOLEAN]
                   ELSE {NoArgs}
    /\ ini \in IF script = "build_ota" THEN IniFiles ELSE {NoFile}
    /\ otaVersion = None
    /\ otaCmds = <<>>
    /\ otaBuildDir = {}
    /\ otaDist = {}
    /\ otaToolRc = NoStatus
    /\ otaExit = NoStatus
    \* embed_web_assets.py, from the shell or (later) as the hook's child
    /\ embedPc = IF script = "embed_web_assets" THEN "start" ELSE "idle"
    /\ embedArgv \in IF script = "embed_web_assets" THEN ShellArgvs ELSE {<<>>}
    /\ dataDir \in IF script \in {"embed_web_assets", "embed_web_assets_pre"}
                   THEN DataDirs ELSE {NoDir}
    /\ outFs = EmptyOut
    /\ embedIdx = 0
    /\ files_data = <<>>
    /\ embedWritten = {}
    /\ embedRaised = {}
    /\ embedResult = "none"
    /\ embedExit = NoStatus
    /\ now = 0
    /\ runNo = IF script = "embed_web_assets" THEN 1 ELSE 0
    \* embed_web_assets_pre.py
    /\ hookPc = IF script = "embed_web_assets_pre" THEN "start" ELSE "idle"
    /\ hookFrameworks \in IF script = "embed_web_assets_pre"
                          THEN SUBSET Frameworks ELSE {{}}
    /\ hookCmd = <<>>
    /\ hookTimedOut = FALSE
    /\ hookExit = NoStatus
    \* pio_fs_partition.py
    /\ patchPc = IF script = "pio_fs_partition" THEN "ready" ELSE "idle"
    /\ builderMain \in IF script = "pio_fs_partition"
                       THEN {NoBuilder} \cup {[exists |-> TRUE, text |-> t] : t \in Texts}
                       ELSE {NoBuilder}
    /\ patchInitial = builderMain
    /\ patchApplied = 0
    /\ patchWrites = 0
    \* convert_wav_to_pcm.py
    /\ wavPc = IF script = "convert_wav_to_pcm" THEN "start" ELSE "idle"
    /\ wavArgc \in IF script = "convert_wav_to_pcm" THEN {2, 3, 4} ELSE {0}
    /\ wavIn \in IF script = "convert_wav_to_pcm" THEN WavFiles ELSE {NotWav}
    /\ pcmFile \in IF script = "convert_wav_to_pcm" THEN PcmFiles ELSE {NoPcm}
    /\ pcmBefore = pcmFile
    /\ pcmOpened = FALSE
    /\ wavFrames = <<>>
    /\ wavWarned = FALSE
    /\ wavRc = NoStatus
    \* pio_version.py
    /\ verPc = IF script = "pio_version" THEN "start" ELSE "idle"
    /\ verCustom \in IF script = "pio_version" THEN CustomVersions ELSE {Unset}
    /\ verLib \in IF script = "pio_version" THEN LibBehaviours ELSE {"raises"}
    /\ gitTag \in IF script = "pio_version" THEN GitTags ELSE {NoOutput}
    /\ gitHead \in IF script = "pio_version" THEN GitHeads ELSE {NoOutput}
    /\ version_base = <<>>
    /\ git_hash = <<>>
    /\ fw_version = <<>>

Init == \E script \in Scripts : InitOf(script)

Next ==
    \/ OtaMain \/ OtaFirmware \/ OtaFs
    \/ EmbedMain \/ EmbedFileMissing \/ EmbedFileOk \/ EmbedFileError
    \/ EmbedMaster \/ EmbedRerun \/ Tick
    \/ HookCallback \/ HookTimeout \/ HookResult
    \/ PatchInvoke
    \/ WavRead \/ WavWrite
    \/ VersionReadBase \/ VersionReadHash \/ VersionStamp

Spec == Init /\ [][Next]_vars

InitOta == InitOf("build_ota")
InitEmbed == InitOf("embed_web_assets")
InitHook == InitOf("embed_web_assets_pre")
InitBuild == InitOf("build_ota") \/ InitOf("embed_web_assets_pre")
InitPatch == InitOf("pio_fs_partition")
InitWav == InitOf("convert_wav_to_pcm")
InitVersion == InitOf("pio_version")

\* The two scripts that run external tools.
BuildNext == OtaNext \/ HookNext

SpecOta == InitOta /\ [][OtaNext]_vars
SpecEmbed == InitEmbed /\ [][EmbedNext]_vars
SpecHook == InitHook /\ [][HookNext]_vars
SpecBuild == InitBuild /\ [][BuildNext]_vars
SpecPatch == InitPatch /\ [][PatchNext]_vars
SpecWav == InitWav /\ [][WavNext]_vars
SpecVersion == InitVersion /\ [][VersionNext]_vars

(***************************************************************************)
(* Properties                                                              *)
(***************************************************************************)
OtaSection == EnvSection(otaArgs.env)

\* C1, as stated: with no --version and platformio.ini missing or without a
\* custom_fw_version key in section env:<env>, build_ota fails (status 1)
\* before run_cmd is called or anything is copied to dist/ota.
C1_FailsWithoutSectionKey ==
    (otaPc # "idle" /\ otaArgs.version = None
        /\ (~ini.exists \/ ini.opt[OtaSection] \notin IniValues))
    => /\ otaCmds = <<>>
       /\ otaDist = {}
       /\ otaPc \in {"start", "failed"}
       /\ (otaPc = "failed" => otaExit = 1)

\* C1, amended: with no --version and platformio.ini missing, or without the
\* section env:<env>, or with that section lacking custom_fw_version while
\* [DEFAULT] supplies none either, build_ota fails (status 1) before run_cmd
\* is called or anything is copied to dist/ota.
C1_FailsWithoutVersion ==
    (otaPc # "idle" /\ otaArgs.version = None
        /\ (\/ ~ini.exists
            \/ ini.opt[OtaSection] = NoSection
            \/ (ini.opt[OtaSection] = NoKey /\ ini.opt[DefaultSection] \notin IniValues)))
    => /\ otaCmds = <<>>
       /\ otaDist = {}
       /\ otaPc \in {"start", "failed"}
       /\ (otaPc = "failed" => otaExit = 1)

C1_Witness ==
    /\ otaPc = "failed"
    /\ otaArgs.version = None
    /\ ini.exists
    /\ ini.opt[OtaSection] = NoKey
    /\ ~otaArgs.skip_firmware
    /\ otaCmds = <<>>

\* C2: running the transform again on unchanged input files writes
\* byte-identical headers: a complete header that a step rewrites keeps its
\* bytes (the data directory never changes in the model).
C2_RewriteIsIdentical ==
    [][\A n \in OutNames :
          (outFs[n].kind = "text" /\ outFs'[n].kind = "text") => outFs'[n] = outFs[n]]_vars

\* C3: for an ESP-IDF-only build the hook passes --idf, and with the data
\* directory there and every asset processed without an error the child does
\* the embedding and exits 0, so the hook returns without env.Exit(1).
C3_HookFlagAccepted ==
    (hookPc \in {"returned", "exited"} /\ IsIdfOnly(hookFrameworks)
        /\ embedPc = "done" /\ embedRaised = {} /\ ~hookTimedOut)
    => /\ hookCmd[Len(hookCmd)] = "--idf"
       /\ embedResult = "true"
       /\ embedExit = 0
       /\ hookPc = "returned"

\* C4, as stated: for every text of builder/main.py, once the patch has run,
\* running it again leaves the file as it is and writes nothing.
C4_SecondRunNoOp ==
    [][patchApplied >= 1 =>
          (builderMain' = builderMain /\ patchWrites' = patchWrites)]_vars

\* C4, amended: for every text of builder/main.py with at most one occurrence
\* of the needle, once the patch has run, running it again leaves the file as
\* it is and writes nothing.
C4_SecondRunNoOpSingleNeedle ==
    [][(patchApplied >= 1 /\ CountOf(patchInitial.text, needle) <= 1) =>
          (builderMain' = builderMain /\ patchWrites' = patchWrites)]_vars

C4_Witness ==
    /\ patchApplied >= 2
    /\ CountOf(patchInitial.text, needle) = 1
    /\ builderMain.text = ReplaceFirst(patchInitial.text, needle, <<PRE, EXT, CLOSE>>)
    /\ builderMain.text # patchInitial.text
    /\ patchWrites = 1

WavInputRead == wavPc # "idle" /\ wavArgc = 3 /\ wavIn.valid

\* C5: a WAV that is not mono or not 16-bit is rejected with return code 1
\* and the output path is never opened: the file there, if any, keeps its
\* content, and none is created.
C5_RejectedNoOutput ==
    (WavInputRead /\ (wavIn.channels # 1 \/ wavIn.sampwidth # 2))
    => /\ wavPc \in {"start", "done"}
       /\ (wavPc = "done" => wavRc = 1)
       /\ ~pcmOpened
       /\ pcmFile = pcmBefore

C5_Witness ==
    /\ wavPc = "done"
    /\ wavArgc = 3
    /\ wavIn.valid
    /\ wavIn.channels = 2
    /\ wavIn.sampwidth = 2
    /\ wavIn.rate = ExpectedRate
    /\ pcmBefore.exists
    /\ wavRc = 1

\* C6, as stated: when a pio command of build_ota exits non-zero, or the
\* hook's child exits non-zero or times out, the invoking script stops there
\* and exits with the failed tool's exit status.
C6_ExitsWithToolStatus ==
    /\ (otaToolRc \notin {NoStatus, 0} =>
           (otaPc = "failed" /\ otaExit = otaToolRc
              /\ Cardinality(otaDist) = Len(otaCmds) - 1))
    /\ ((hookPc \notin {"idle", "start", "subprocess"} /\ embedPc = "done" /\ embedExit # 0)
           => (hookPc = "exited" /\ hookExit = embedExit))
    /\ (hookTimedOut => (hookPc = "exited" /\ hookExit # 0 /\ embedPc = "killed"))

\* C6, amended: when a pio command of build_ota exits non-zero, or the hook's
\* child exits non-zero or times out, the invoking script stops there (no
\* later build or copy step runs) and exits with status 1, whatever the
\* failed tool's status.
C6_ExitsWithStatusOne ==
    /\ (otaToolRc \notin {NoStatus, 0} =>
           (otaPc = "failed" /\ otaExit = 1
              /\ Cardinality(otaDist) = Len(otaCmds) - 1))
    /\ ((hookPc \notin {"idle", "start", "subprocess"} /\ embedPc = "done" /\ embedExit # 0)
           => (hookPc = "exited" /\ hookExit = 1))
    /\ (hookTimedOut => (hookPc = "exited" /\ hookExit = 1 /\ embedPc = "killed"))

C6_Witness ==
    /\ otaToolRc = 2
    /\ otaPc = "failed"
    /\ otaExit = 1
    /\ Len(otaCmds) = 2
    /\ Cardinality(otaDist) = 1

IndexOf(f) == CHOOSE i \in 1..Len(embed_files) : embed_files[i] = f
PresentBefore(f) == {g \in Present(dataDir) : IndexOf(g) < IndexOf(f)}
\* The present files, in the order of the allow-list
PresentInOrder == SelectSeq(embed_files, LAMBDA f : dataDir.files[f].present)

\* C7: when processing a present file raises, the run stops at that file and
\* returns False (status 1): no later file is processed, the master header is
\* not written, and the headers written for earlier files stay.
C7_ErrorAborts ==
    embedRaised # {} =>
       /\ Cardinality(embedRaised) = 1
       /\ embedPc = "done"
       /\ embedResult = "false"
       /\ embedExit = 1
       /\ \A f \in embedRaised :
             /\ embedIdx = IndexOf(f)
             /\ embedWritten = {HeaderFile(g) : g \in PresentBefore(f)}
             /\ {files_data[i].filename : i \in 1..Len(files_data)} = PresentBefore(f)
       /\ MasterFile \notin embedWritten
       /\ outFs[MasterFile] = Absent
       /\ \A n \in embedWritten : outFs[n].kind = "text"

C7_Witness ==
    /\ embedRaised # {}
    /\ embedWritten # {}
    /\ embedIdx < Len(embed_files)
    /\ embedResult = "false"
    /\ \E n \in OutNames : outFs[n] = Partial

\* C8: allow-list files missing from the data directory are skipped: for
\* every subset that is present (and processed without an error) the run
\* returns True, writes one individual header per present file and none for
\* a missing one, and a master header whose registry lists the present files
\* in allow-list order, embedded_files_count being their number.
C8_MissingSkipped ==
    (embedPc = "done" /\ Len(embedArgv) = 3 /\ dataDir.exists /\ embedRaised = {})
    => /\ embedResult = "true"
       /\ embedExit = 0
       /\ embedWritten = {HeaderFile(f) : f \in Present(dataDir)} \cup {MasterFile}
       /\ Cardinality(embedWritten) = Cardinality(Present(dataDir)) + 1
       /\ \A f \in AllowList :
             outFs[HeaderFile(f)].kind = IF f \in Present(dataDir) THEN "text" ELSE "absent"
       /\ outFs[MasterFile].kind = "text"
       /\ LET master == outFs[MasterFile].text[1] IN
             /\ master.count = Cardinality(Present(dataDir))
             /\ Len(master.registry) = master.count
             /\ \A i \in 1..Len(master.registry) :
                   master.registry[i].filename = PresentInOrder[i]

C8_Witness ==
    /\ embedPc = "done"
    /\ embedResult = "true"
    /\ Cardinality(Present(dataDir)) = 2
    /\ ~dataDir.files[embed_files[1]].present
    /\ Len(outFs[MasterFile].text[1].registry) = 2

\* C9: pio_version never fails, and with no configured version and no git
\* history the version is "0.0.0+nogit".
C9_NeverFails ==
    /\ verPc # "failed"
    /\ (verPc = "done" /\ ~verCustom.set /\ ~gitTag.ok /\ ~gitHead.ok)
          => fw_version = Fallback_base \o <<"+">> \o Fallback_hash

\* C10: for every mono 16-bit WAV, at 16 kHz or any other rate, main returns
\* 0 and the output file holds exactly the bytes of the input's whole frames.
C10_FramesCopied ==
    (WavInputRead /\ wavPc = "done" /\ wavIn.channels = 1 /\ wavIn.sampwidth = 2)
    => /\ wavRc = 0
       /\ pcmFile.exists
       /\ pcmFile.bytes = SubSeq(wavIn.data, 1, 2 * (Len(wavIn.data) \div 2))
       /\ Len(pcmFile.bytes) = 2 * (Len(wavIn.data) \div 2)

C10_Witness ==
    /\ wavPc = "done"
    /\ wavIn.valid
    /\ wavIn.channels = 1
    /\ wavIn.sampwidth = 2
    /\ wavIn.rate # ExpectedRate
    /\ wavWarned
    /\ wavRc = 0
    /\ Len(pcmFile.bytes) = 4
====
